---- MODULE Spec2Model ----
(***************************************************************************)
(* SimpleDB (src/SimpleDB.js): a single-file, JSON-backed key-value store. *)
(* The source holds two versions of the class: the one that serialises its *)
(* own file writes through a promise queue (lines 209-384, exported last)  *)
(* and an earlier one that takes a proper-lockfile path lock (lines 6-191).*)
(* A store instance is modelled with every asynchronous suspension point   *)
(* of the code as a separate step: the file read of a cache-less call, the *)
(* two halves of fs.writeFile (open with truncation, then the data), the   *)
(* delayed-write timer and the three stages of the fs.watchFile callback.  *)
(***************************************************************************)
EXTENDS Integers, Sequences, FiniteSets, TLC

\* ------------------------------------------------------------------ bounds
MaxBatch == 2      \* longest operations list handed to batchWrite
MaxPage == 2       \* largest pageNumber and pageSize handed to readPage
MaxCalls == 2      \* calls a client makes in one behaviour (one more where stated)

\* ------------------------------------------------------------------ inputs
Keys == {"a", "1"}               \* "1" is an integer-like property name
Values == {"0", "1"}             \* JSON texts of the values: 0 is falsy, 1 is not
NonStringKey == "<number>"       \* stands for any key with typeof key !== "string"
Undefined == "undefined"         \* the JS value undefined (Map.get of a missing key)
Null == "null"                   \* the JS value null, the absent sentinel of read

\* ------------------------------------------------------- JS values and Map
\* Values for which the JS operator || takes its right operand.
Falsy == {"0", "false", "\"\"", Null, Undefined}

\* x || null
OrNull(x) == IF x \in Falsy THEN Null ELSE x

Entry(k, v) == [key |-> k, val |-> v]

\* A JS Map is its entries in insertion order, keys unique.
MapHas(m, k) == \E j \in 1..Len(m) : m[j].key = k

MapGet(m, k) ==
  IF MapHas(m, k) THEN m[CHOOSE j \in 1..Len(m) : m[j].key = k].val ELSE Undefined

\* Map.prototype.set: an existing key keeps its position, a new one is appended.
MapSet(m, k, v) ==
  IF MapHas(m, k)
    THEN [j \in 1..Len(m) |-> IF m[j].key = k THEN Entry(k, v) ELSE m[j]]
    ELSE Append(m, Entry(k, v))

\* Map.prototype.delete: removes the entry of the key, nothing when it is missing.
MapDelete(m, k) == SelectSeq(m, LAMBDA e : e.key # k)

MapKeys(m) == [j \in 1..Len(m) |-> m[j].key]

\* Array.prototype.slice(lo, hi) for 0 <= lo <= hi: positions lo .. hi-1, clipped.
Slice(s, lo, hi) == SubSeq(s, lo + 1, IF hi < Len(s) THEN hi ELSE Len(s))

\* ----------------------------------------------------- objects and the codec
\* A plain object is its own properties in enumeration order. ECMAScript
\* enumerates integer-like names first, in ascending numeric order, and the
\* other string names after them in creation order.
ArrayIndexKeys == {"1", "2"}
ArrayIndex(k) == CASE k = "1" -> 1 [] k = "2" -> 2 [] OTHER -> 0
IsArrayIndex(k) == k \in ArrayIndexKeys

RECURSIVE InsertByIndex(_, _)
InsertByIndex(s, e) ==
  IF s = <<>> THEN <<e>>
  ELSE IF ArrayIndex(e.key) < ArrayIndex(Head(s).key) THEN <<e>> \o s
  ELSE <<Head(s)>> \o InsertByIndex(Tail(s), e)

RECURSIVE SortByIndex(_)
SortByIndex(s) == IF s = <<>> THEN <<>> ELSE InsertByIndex(SortByIndex(Tail(s)), Head(s))

\* The enumeration order of an object whose properties were created in order s.
PropertyOrder(s) ==
  SortByIndex(SelectSeq(s, LAMBDA e : IsArrayIndex(e.key)))
    \o SelectSeq(s, LAMBDA e : ~IsArrayIndex(e.key))

\* Object.fromEntries(map)
ObjectFromEntries(m) == PropertyOrder(m)

\* new Map(Object.entries(obj)): the Map's insertion order is the enumeration order.
MapFromObject(o) == o

\* A file text: zero bytes, a JSON object text (members in text order) or
\* bytes that JSON.parse rejects.
EmptyText == [kind |-> "empty", members |-> <<>>]
GarbageText == [kind |-> "garbage", members |-> <<>>]

\* JSON.stringify(obj, null, 2): the members in the object's enumeration order.
JSONstringify(o) == [kind |-> "json", members |-> o]

JSONparses(t) == t.kind = "json"

\* JSON.parse(text), for a text it accepts: the properties are created in text order.
JSONparse(t) == PropertyOrder(t.members)

\* The bytes fs.writeFile puts at offset 0 over what the file holds at that
\* moment. writeFile truncates when it opens, so old is normally empty; bytes
\* another writer put there in between survive past the end of the new text.
TextLen(t) == IF t.kind = "garbage" THEN Cardinality(Keys) + 1 ELSE Len(t.members)
WriteAtStart(old, new) == IF TextLen(old) > TextLen(new) THEN GarbageText ELSE new

AbsentFile == [exists |-> FALSE, text |-> EmptyText]
FileOf(t) == [exists |-> TRUE, text |-> t]

\* ------------------------------------------------------------------- state
VARIABLES
  file,            \* the backing file: [exists, text]
  mtimeChanged,    \* per instance: the file's mtime changed since its watcher's last poll
  lock,            \* the proper-lockfile lock on the path: 0 free, else the holding instance
  cfg,             \* per instance: the constructor options [useCache, delayedWrite] and
                   \* which version of the class it is (locking)
  initialized,     \* per instance: _initialize has completed
  dataCache,       \* per instance: this.dataCache, [null, map]
  writeScheduled,  \* per instance: this.writeScheduled
  timer,           \* per instance: the setTimeout of _flushDataIfNeeded, [armed, ref, missed]
  queue,           \* per instance: this.queue, [rejected, jobs]; for the lock-taking
                   \* version jobs holds the one writeFile that is in progress
  watcher,         \* per instance: the fs.watchFile listener, [pc, data]
  call,            \* per instance and slot: a client call in flight or its outcome (a
                   \* client that awaits each call has one slot)
  events,          \* per instance: the last event emitted, [name, data]
  budget,          \* per instance: the calls its client may still make; under 0, the
                   \* writes other programs may still make
  inserted         \* per instance: the keys of its Dataset in the order in which its
                   \* calls inserted them (history, read by no action)

vars == <<file, mtimeChanged, lock, cfg, initialized, dataCache, writeScheduled,
          timer, queue, watcher, call, events, budget, inserted>>

\* A reference to a Map object: the object this.dataCache points to (alias), or
\* an object nothing else can reach, given by its content.
AliasRef == [alias |-> TRUE, map |-> <<>>]
PrivateRef(m) == [alias |-> FALSE, map |-> m]
Deref(i, r) == IF r.alias THEN dataCache[i].map ELSE r.map

\* Per key: the last mutation of the key since the timer was armed left it in a
\* state that the Map captured by the timer does not show.
NoneMissed == [k \in Keys |-> FALSE]

NoCall ==
  [op |-> "none", key |-> "", val |-> "", overwrite |-> FALSE, ops |-> <<>>,
   pageNumber |-> 0, pageSize |-> 0, pc |-> "idle", data |-> <<>>,
   pre |-> <<>>, view |-> <<>>, err |-> "none", res |-> "", page |-> <<>>,
   nwrites |-> 0]

NoEvent == [name |-> "none", data |-> <<>>]
NoTimer == [armed |-> FALSE, ref |-> PrivateRef(<<>>), missed |-> NoneMissed]
\* A write in this.queue: "queued" behind an earlier one, "encoded" once the
\* callback of then has run JSON.stringify, "opened" once writeFile has opened
\* (and so truncated) the file.
Job(owner, ref, missed) ==
  [owner |-> owner, ref |-> ref, phase |-> "queued", text |-> EmptyText, missed |-> missed]

\* ------------------------------------------------------------ construction
\* constructor: the options, an empty Map when caching, no flush pending, an
\* empty resolved queue; _initialize has been called and not yet completed.
Options == [useCache : BOOLEAN, delayedWrite : BOOLEAN, locking : BOOLEAN]

\* The store instances (processes) on the path, and the call slots of each.
Inst == DOMAIN cfg
Slot(i) == DOMAIN call[i]

InitialFiles == {AbsentFile, FileOf(JSONstringify(<<Entry("a", "1")>>))}

Constructed(c, slots, calls) ==
  /\ cfg = c
  /\ file \in InitialFiles
  /\ mtimeChanged = [i \in DOMAIN c |-> FALSE]
  /\ lock = 0
  /\ initialized = [i \in DOMAIN c |-> FALSE]
  /\ dataCache = [i \in DOMAIN c |-> [null |-> ~c[i].useCache, map |-> <<>>]]
  /\ writeScheduled = [i \in DOMAIN c |-> FALSE]
  /\ timer = [i \in DOMAIN c |-> NoTimer]
  /\ queue = [i \in DOMAIN c |-> [rejected |-> FALSE, jobs |-> <<>>]]
  /\ watcher = [i \in DOMAIN c |-> [pc |-> "off", data |-> <<>>]]
  /\ call = [i \in DOMAIN c |-> [s \in slots |-> NoCall]]
  /\ events = [i \in DOMAIN c |-> NoEvent]
  /\ budget = calls
  /\ inserted = [i \in DOMAIN c |-> <<>>]

\* One store instance on the path, whose client awaits each call.
Init == \E o \in Options : Constructed([i \in {1} |-> o], {1}, [i \in {1} |-> MaxCalls])

Touch == mtimeChanged' = [i \in Inst |-> TRUE]

Idle(i, s) == call[i][s].pc = "idle"
Settled(i, s) == call[i][s].pc \in {"returned", "threw"}

\* When the promise of a call settles, the continuation of the awaiting client
\* runs as a microtask, before any other callback of that process: nothing else
\* of the instance runs first.
Running(i) == \A s \in Slot(i) : ~Settled(i, s)

\* _initialize: create the file when it is missing, load the cache when caching,
\* start the watcher (whose first stat is the baseline of its comparisons); a
\* failure is emitted and the watcher is not started.
Initialize(i) ==
  /\ Running(i) /\ ~initialized[i]
  /\ initialized' = [initialized EXCEPT ![i] = TRUE]
  /\ IF ~file.exists
       THEN /\ file' = FileOf(JSONstringify(<<>>))
            /\ mtimeChanged' = [j \in Inst |-> j # i]
            /\ dataCache' = [dataCache EXCEPT ![i] = [null |-> FALSE, map |-> <<>>]]
            /\ watcher' = [watcher EXCEPT ![i].pc = "idle"]
            /\ UNCHANGED events
       ELSE /\ file' = file
            /\ mtimeChanged' = [mtimeChanged EXCEPT ![i] = FALSE]
            /\ IF ~cfg[i].useCache
                 THEN /\ watcher' = [watcher EXCEPT ![i].pc = "idle"]
                      /\ UNCHANGED <<dataCache, events>>
                 ELSE IF file.text.kind = "garbage"
                   THEN /\ events' = [events EXCEPT ![i] = [name |-> "error", data |-> <<>>]]
                        /\ UNCHANGED <<dataCache, watcher>>
                   ELSE /\ dataCache' = [dataCache EXCEPT ![i] =
                              [null |-> FALSE,
                               map |-> IF file.text.kind = "empty" THEN <<>>
                                       ELSE MapFromObject(JSONparse(file.text))]]
                        /\ watcher' = [watcher EXCEPT ![i].pc = "idle"]
                        /\ UNCHANGED events
  /\ inserted' = [inserted EXCEPT ![i] =
       IF file.exists /\ JSONparses(file.text) THEN MapKeys(JSONparse(file.text)) ELSE <<>>]
  /\ UNCHANGED <<lock, cfg, writeScheduled, timer, queue, call, budget>>

\* ------------------------------------------------------------ the write queue
\* _writeToFile(data): this.queue = this.queue.then(() => writeFile(path,
\* JSON.stringify(Object.fromEntries(data)))); await this.queue. The callback of
\* then runs once the previous write has completed: at once (a microtask) when
\* none is outstanding. It encodes the Map as it is at that moment; writeFile
\* then opens the file, which truncates it, and the bytes arrive after that.
Encode(m) == JSONstringify(ObjectFromEntries(m))

Begin(job, m) ==
  [job EXCEPT !.phase = "encoded", !.text = Encode(m), !.ref = PrivateRef(<<>>)]

\* The queue of instance i after _writeToFile(ref) by owner, where now is the
\* content of the Map behind ref at this moment.
writeToFile(i, owner, ref, now, missed) ==
  LET q == queue[i]
      job == Job(owner, ref, missed)
  IN IF q.rejected THEN q
     ELSE IF q.jobs = <<>> THEN [q EXCEPT !.jobs = <<Begin(job, now)>>]
     ELSE [q EXCEPT !.jobs = Append(q.jobs, job)]

Truncated == FileOf(EmptyText)

\* ----------------------------------------------------------- _flushDataIfNeeded
\* The decision of _flushDataIfNeeded(data): write now, arm the timer, or nothing.
flushDataIfNeeded(i, data) ==
  IF Len(data) > 0
    THEN IF cfg[i].delayedWrite
           THEN IF ~writeScheduled[i] THEN "arm" ELSE "none"
           ELSE "write"
    ELSE "none"

\* ------------------------------------------------------------------ the calls
Mutating == {"create", "update", "delete", "batchWrite"}
Reading == {"read", "readAll", "batchRead", "readPage"}

BatchOp ==
  {[action |-> "create", key |-> "a", value |-> "1"],
   [action |-> "update", key |-> "1", value |-> "0"],
   [action |-> "delete", key |-> "a", value |-> Undefined]}

SeqsUpTo(S, n) == UNION {[1..l -> S] : l \in 0..n}

\* typeof key !== "string"
IsString(k) == k # NonStringKey

\* _isValidJson(value): JSON.stringify(undefined) is undefined, which JSON.parse rejects.
isValidJson(v) == v # Undefined

\* The test of create that throws "Key already exists."
KeyExists(overwrite, data, key) == ~overwrite /\ MapHas(data, key)

\* The forEach of batchWrite: create and update set, delete deletes, in list order.
RECURSIVE ApplyOps(_, _)
ApplyOps(data, ops) ==
  IF ops = <<>> THEN data
  ELSE LET o == Head(ops)
       IN ApplyOps(IF o.action \in {"create", "update"} THEN MapSet(data, o.key, o.value)
                   ELSE IF o.action = "delete" THEN MapDelete(data, o.key)
                   ELSE data,
                   Tail(ops))

\* What a mutating call makes of the Map it works on.
Mutate(c, data) ==
  CASE c.op \in {"create", "update"} -> MapSet(data, c.key, c.val)
    [] c.op = "delete" -> MapDelete(data, c.key)
    [] c.op = "batchWrite" -> ApplyOps(data, c.ops)

\* The keys a mutating call sets or deletes.
Touched(c) ==
  IF c.op = "batchWrite" THEN {c.ops[j].key : j \in 1..Len(c.ops)} ELSE {c.key}

\* The missed keys after call c made m of its Map, for a timer that captured cap.
Note(missed, c, m, cap) ==
  [k \in Keys |-> IF k \in Touched(c)
                    THEN MapHas(m, k) # MapHas(cap, k) \/ MapGet(m, k) # MapGet(cap, k)
                    ELSE missed[k]]

Threw(c, err) == [c EXCEPT !.pc = "threw", !.err = err, !.data = <<>>]
Returned(c) == [c EXCEPT !.pc = "returned", !.data = <<>>]

\* How a mutating call leaves its body: it returns or throws, in the
\* lock-taking version after the release() of its finally block.
Leave(i, c, err) ==
  IF cfg[i].locking THEN [c EXCEPT !.pc = "release", !.err = err, !.data = <<>>]
  ELSE IF err = "none" THEN Returned(c)
  ELSE Threw(c, err)

\* create / delete / batchWrite from the point where data is at hand to the
\* return or to the await of the write: the KeyExists test, the mutation of the
\* Map, this.dataCache = data when caching, and _flushDataIfNeeded(data). In the
\* lock-taking version the call holds the path lock here, so the
\* lockfile.lock of _writeToFile finds the lock held and rejects (ELOCKED).
MutateAndFlush(i, s, c, data) ==
  IF c.op = "create" /\ KeyExists(c.overwrite, data, c.key)
    THEN /\ call' = [call EXCEPT ![i][s] =
              Leave(i, [c EXCEPT !.pre = data, !.view = data], "KeyExists")]
         /\ UNCHANGED <<file, mtimeChanged, dataCache, writeScheduled, timer, queue, inserted>>
    ELSE
      LET m == Mutate(c, data)
          ref == IF cfg[i].useCache THEN AliasRef ELSE PrivateRef(m)
          todo == flushDataIfNeeded(i, m)
          c2 == [c EXCEPT !.pre = data, !.view = m]
      IN /\ dataCache' = IF cfg[i].useCache
                           THEN [dataCache EXCEPT ![i] = [null |-> FALSE, map |-> m]]
                           ELSE dataCache
         /\ writeScheduled' = IF todo = "arm" THEN [writeScheduled EXCEPT ![i] = TRUE]
                              ELSE writeScheduled
         /\ timer' = IF todo = "arm"
                       THEN [timer EXCEPT ![i] = [armed |-> TRUE, ref |-> ref,
                                                  missed |-> NoneMissed]]
                     ELSE IF timer[i].armed
                       THEN [timer EXCEPT ![i].missed =
                               Note(@, c, m, IF timer[i].ref.alias THEN m ELSE timer[i].ref.map)]
                     ELSE timer
         /\ queue' = IF todo = "write" /\ ~cfg[i].locking
                       THEN [queue EXCEPT ![i] = writeToFile(i, s, ref, m, NoneMissed)]
                       ELSE queue
         /\ call' = [call EXCEPT ![i][s] =
              IF todo # "write" THEN Leave(i, c2, "none")
              ELSE IF cfg[i].locking THEN Leave(i, c2, "ELOCKED")
              ELSE IF queue[i].rejected THEN Threw(c2, "IOFailure")
              ELSE [c2 EXCEPT !.pc = "awaitWrite", !.data = <<>>]]
         /\ inserted' = [inserted EXCEPT ![i] =
              MapKeys(Mutate(c, [j \in 1..Len(@) |-> Entry(@[j], Undefined)]))]
         /\ UNCHANGED <<file, mtimeChanged>>

\* The answer of a reading call that has its data.
\* batchRead: values[key] = data.get(key) || null for each key, in list order.
RECURSIVE BuildValues(_, _, _)
BuildValues(values, keys, data) ==
  IF keys = <<>> THEN values
  ELSE BuildValues(MapSet(values, Head(keys).key, OrNull(MapGet(data, Head(keys).key))),
                   Tail(keys), data)

\* readPage: the keys of the slice, a Map of them with their values, as an object.
PageOf(data, pageNumber, pageSize) ==
  LET keys == Slice(MapKeys(data), (pageNumber - 1) * pageSize, pageNumber * pageSize)
      pageData == [j \in 1..Len(keys) |-> Entry(keys[j], MapGet(data, keys[j]))]
  IN ObjectFromEntries(pageData)

Answer(c, data) ==
  CASE c.op = "read" -> [c EXCEPT !.res = OrNull(MapGet(data, c.key))]
    [] c.op = "readAll" -> [c EXCEPT !.page = ObjectFromEntries(data)]
    [] c.op = "batchRead" -> [c EXCEPT !.page = PropertyOrder(BuildValues(<<>>, c.ops, data))]
    [] c.op = "readPage" -> [c EXCEPT !.page = PageOf(data, c.pageNumber, c.pageSize)]

\* A call from the point where its data is at hand.
Continue(i, s, c, data) ==
  IF c.op \in Mutating
    THEN MutateAndFlush(i, s, c, data)
    ELSE /\ call' = [call EXCEPT ![i][s] = Returned([Answer(c, data) EXCEPT !.pre = data, !.view = data])]
         /\ UNCHANGED <<file, mtimeChanged, dataCache, writeScheduled, timer, queue, inserted>>

\* const data = this.useCache ? this.dataCache : await this._readFromFile()
\* In the lock-taking version a mutating call first awaits lockfile.lock, and
\* so does the _readFromFile of a reading call.
Obtain(i, s, c) ==
  IF cfg[i].locking /\ (c.op \in Mutating \/ ~cfg[i].useCache)
    THEN /\ call' = [call EXCEPT ![i][s] = [c EXCEPT !.pc = "awaitLock"]]
         /\ UNCHANGED <<file, mtimeChanged, dataCache, writeScheduled, timer, queue, inserted>>
  ELSE IF cfg[i].useCache
    THEN Continue(i, s, c, dataCache[i].map)
    ELSE /\ call' = [call EXCEPT ![i][s] = [c EXCEPT !.pc = "awaitRead"]]
         /\ UNCHANGED <<file, mtimeChanged, dataCache, writeScheduled, timer, queue, inserted>>

\* A client may call when the instance is initialized (every method awaits
\* this.initialized) and the slot holds no call.
Callable(i, s) == Running(i) /\ initialized[i] /\ budget[i] > 0 /\ Idle(i, s)

Others == UNCHANGED <<cfg, initialized, watcher, events>>
Rest == Others /\ UNCHANGED lock
Called(i) == budget' = [budget EXCEPT ![i] = @ - 1]

create(i, s, key, value, overwrite) ==
  LET c == [NoCall EXCEPT !.op = "create", !.key = key, !.val = value, !.overwrite = overwrite]
  IN /\ Callable(i, s)
     /\ IF ~IsString(key)
          THEN /\ call' = [call EXCEPT ![i][s] = Threw(c, "InvalidKey")]
               /\ UNCHANGED <<file, mtimeChanged, dataCache, writeScheduled, timer, queue, inserted>>
        ELSE IF ~isValidJson(value)
          THEN /\ call' = [call EXCEPT ![i][s] = Threw(c, "InvalidValue")]
               /\ UNCHANGED <<file, mtimeChanged, dataCache, writeScheduled, timer, queue, inserted>>
        ELSE Obtain(i, s, c)
     /\ Rest /\ Called(i)

update(i, s, key, value) == create(i, s, key, value, TRUE)

delete(i, s, key) ==
  LET c == [NoCall EXCEPT !.op = "delete", !.key = key]
  IN /\ Callable(i, s)
     /\ IF ~IsString(key)
          THEN /\ call' = [call EXCEPT ![i][s] = Threw(c, "InvalidKey")]
               /\ UNCHANGED <<file, mtimeChanged, dataCache, writeScheduled, timer, queue, inserted>>
          ELSE Obtain(i, s, c)
     /\ Rest /\ Called(i)

batchWrite(i, s, operations) ==
  /\ Callable(i, s)
  /\ Obtain(i, s, [NoCall EXCEPT !.op = "batchWrite", !.ops = operations])
  /\ Rest /\ Called(i)

read(i, s, key) ==
  LET c == [NoCall EXCEPT !.op = "read", !.key = key]
  IN /\ Callable(i, s)
     /\ IF ~IsString(key)
          THEN /\ call' = [call EXCEPT ![i][s] = Threw(c, "InvalidKey")]
               /\ UNCHANGED <<file, mtimeChanged, dataCache, writeScheduled, timer, queue, inserted>>
          ELSE Obtain(i, s, c)
     /\ Rest /\ Called(i)

\* The lock-taking version of the class has no readAll method.
readAll(i, s) ==
  /\ Callable(i, s) /\ ~cfg[i].locking
  /\ Obtain(i, s, [NoCall EXCEPT !.op = "readAll"])
  /\ Rest /\ Called(i)

batchRead(i, s, keys) ==
  /\ Callable(i, s)
  /\ Obtain(i, s, [NoCall EXCEPT !.op = "batchRead", !.ops = keys])
  /\ Rest /\ Called(i)

readPage(i, s, pageNumber, pageSize) ==
  /\ Callable(i, s)
  /\ Obtain(i, s, [NoCall EXCEPT !.op = "readPage", !.pageNumber = pageNumber,
                                 !.pageSize = pageSize])
  /\ Rest /\ Called(i)

\* _readFromFile: the Map of the parsed file, an empty Map when JSON.parse throws.
readFromFile(f) == IF JSONparses(f.text) THEN MapFromObject(JSONparse(f.text)) ELSE <<>>

\* The readFile of a call's _readFromFile completes: the content is the file's
\* at this moment (a missing file rejects the call).
FileRead(i, s) ==
  /\ Running(i) /\ call[i][s].pc = "awaitRead"
  /\ call' = [call EXCEPT ![i][s] =
       IF ~file.exists THEN Threw(@, "IOFailure")
       ELSE IF cfg[i].locking /\ ~JSONparses(file.text) THEN Threw(@, "SyntaxError")
       ELSE [@ EXCEPT !.pc = "haveData", !.data = readFromFile(file)]]
  /\ lock' = IF cfg[i].locking THEN 0 ELSE lock
  /\ UNCHANGED <<file, mtimeChanged, dataCache, writeScheduled, timer, queue, inserted>>
  /\ Others /\ UNCHANGED budget

\* lockfile.lock(path, {realpath: false}) settles: the lock is taken when it is
\* free; when it is held, by whomever, the call rejects at once (no retries).
Acquire(i, s) ==
  /\ Running(i) /\ call[i][s].pc = "awaitLock"
  /\ IF lock # 0
       THEN /\ call' = [call EXCEPT ![i][s] = Threw(@, "ELOCKED")]
            /\ UNCHANGED lock
       ELSE /\ call' = [call EXCEPT ![i][s].pc =
                 IF call[i][s].op \in Mutating THEN "locked" ELSE "awaitRead"]
            /\ lock' = i
  /\ UNCHANGED <<file, mtimeChanged, dataCache, writeScheduled, timer, queue, inserted>>
  /\ Others /\ UNCHANGED budget

\* The body of a mutating call of the lock-taking version, holding the lock:
\* without caching its _readFromFile asks for the lock the call holds and rejects.
Locked(i, s) ==
  /\ Running(i) /\ call[i][s].pc = "locked"
  /\ IF cfg[i].useCache
       THEN MutateAndFlush(i, s, call[i][s], dataCache[i].map)
       ELSE /\ call' = [call EXCEPT ![i][s] = Leave(i, @, "ELOCKED")]
            /\ UNCHANGED <<file, mtimeChanged, dataCache, writeScheduled, timer, queue, inserted>>
  /\ Rest /\ UNCHANGED budget

\* A release() that is not in a finally block: it is skipped, and the lock
\* stays held, when the body of the call has thrown.
ReleaseUnlessThrown(i, s) ==
  /\ Running(i) /\ call[i][s].pc = "release"
  /\ lock' = IF call[i][s].err = "none" THEN 0 ELSE lock
  /\ call' = [call EXCEPT ![i][s] = IF @.err = "none" THEN Returned(@) ELSE Threw(@, @.err)]
  /\ UNCHANGED <<file, mtimeChanged, dataCache, writeScheduled, timer, queue, inserted>>
  /\ Others /\ UNCHANGED budget

\* finally { await release() }: the lock is freed and the call settles.
Release(i, s) ==
  /\ Running(i) /\ call[i][s].pc = "release"
  /\ lock' = 0
  /\ call' = [call EXCEPT ![i][s] = IF @.err = "none" THEN Returned(@) ELSE Threw(@, @.err)]
  /\ UNCHANGED <<file, mtimeChanged, dataCache, writeScheduled, timer, queue, inserted>>
  /\ Others /\ UNCHANGED budget

\* The call resumes after its await of _readFromFile.
Resume(i, s) ==
  /\ Running(i) /\ call[i][s].pc = "haveData"
  /\ Continue(i, s, call[i][s], call[i][s].data)
  /\ Rest /\ UNCHANGED budget

\* --------------------------------------------------- the steps of a file write
HeadJob(i) == Head(queue[i].jobs)

\* fs.writeFile opens the file with flag "w": the file is truncated.
WriteOpen(i) ==
  /\ Running(i) /\ queue[i].jobs # <<>> /\ HeadJob(i).phase = "encoded"
  /\ queue' = [queue EXCEPT ![i].jobs[1].phase = "opened"]
  /\ file' = Truncated
  /\ Touch
  /\ call' = IF HeadJob(i).owner # 0
               THEN [call EXCEPT ![i][HeadJob(i).owner].nwrites = @ + 1]
               ELSE call
  /\ UNCHANGED <<lock, cfg, initialized, dataCache, writeScheduled, timer, watcher, events, budget, inserted>>

\* The bytes are written and the write's promise resolves: the awaiting call
\* returns, or the timer callback clears writeScheduled; the callback of the
\* next write in the queue runs and encodes its Map. The lock-taking version
\* releases the lock its _writeToFile took.
WriteEnd(i) ==
  /\ Running(i) /\ queue[i].jobs # <<>> /\ HeadJob(i).phase = "opened"
  /\ file' = FileOf(WriteAtStart(file.text, HeadJob(i).text))
  /\ Touch
  /\ LET rest == Tail(queue[i].jobs)
     IN queue' = [queue EXCEPT ![i].jobs =
          IF rest = <<>> THEN rest
          ELSE <<Begin(Head(rest), Deref(i, Head(rest).ref))>> \o Tail(rest)]
  /\ IF HeadJob(i).owner # 0
       THEN /\ call' = [call EXCEPT ![i][HeadJob(i).owner] = Returned(@)]
            /\ UNCHANGED writeScheduled
       ELSE /\ writeScheduled' = [writeScheduled EXCEPT ![i] = FALSE]
            /\ UNCHANGED call
  /\ lock' = IF cfg[i].locking THEN 0 ELSE lock
  /\ UNCHANGED <<cfg, initialized, dataCache, timer, watcher, events, budget, inserted>>

\* The write fails (open or write rejects): this.queue is now a rejected
\* promise, so every write chained on it rejects with the same error without
\* running. An awaiting call throws; the timer callback's rejection is not
\* handled and writeScheduled stays set. Nothing is emitted.
WriteFail(i) ==
  /\ Running(i) /\ queue[i].jobs # <<>> /\ HeadJob(i).phase \in {"encoded", "opened"}
  /\ queue' = [queue EXCEPT ![i] = [rejected |-> ~cfg[i].locking, jobs |-> <<>>]]
  /\ lock' = IF cfg[i].locking THEN 0 ELSE lock
  /\ call' = [call EXCEPT ![i] =
       [s \in Slot(i) |-> IF \E j \in 1..Len(queue[i].jobs) : queue[i].jobs[j].owner = s
                         THEN Threw(call[i][s], "IOFailure") ELSE call[i][s]]]
  /\ UNCHANGED <<file, mtimeChanged, cfg, initialized, dataCache, writeScheduled,
                 timer, watcher, events, budget, inserted>>

\* ------------------------------------------------------------------ the timer
\* The setTimeout callback: await this._writeToFile(data) with the Map object
\* captured when the timer was armed; writeScheduled is cleared after the write.
\* In the lock-taking version _writeToFile takes the lock first; when the lock
\* is held the callback's promise rejects, nothing handles it and
\* writeScheduled stays set.
TimerFire(i) ==
  /\ Running(i) /\ timer[i].armed
  /\ IF cfg[i].locking /\ lock # 0
       THEN UNCHANGED <<queue, lock>>
       ELSE /\ queue' = [queue EXCEPT ![i] =
                 writeToFile(i, 0, timer[i].ref, Deref(i, timer[i].ref), timer[i].missed)]
            /\ lock' = IF cfg[i].locking THEN i ELSE lock
  /\ timer' = [timer EXCEPT ![i] = NoTimer]
  /\ UNCHANGED <<file, mtimeChanged, cfg, initialized, dataCache, writeScheduled,
                 watcher, call, events, budget, inserted>>

\* ---------------------------------------------------------------- the watcher
\* fs.watchFile polls the file's stat and calls the listener when it changed.
WatchPoll(i) ==
  /\ Running(i) /\ watcher[i].pc = "idle" /\ mtimeChanged[i]
  /\ mtimeChanged' = [mtimeChanged EXCEPT ![i] = FALSE]
  /\ watcher' = [watcher EXCEPT ![i].pc = "detected"]
  /\ UNCHANGED <<file, lock, cfg, initialized, dataCache, writeScheduled, timer, queue,
                 call, events, budget, inserted>>

\* The listener's await this._readFromFile(): the file is read at this moment.
\* The _readFromFile of the lock-taking version takes the lock (it rejects when
\* the lock is held) and does not catch the error of JSON.parse; the listener
\* emits the error.
WatchRead(i) ==
  /\ Running(i) /\ watcher[i].pc = "detected"
  /\ IF file.exists /\ (cfg[i].locking => lock = 0 /\ JSONparses(file.text))
       THEN /\ watcher' = [watcher EXCEPT ![i] = [pc |-> "loaded", data |-> readFromFile(file)]]
            /\ lock' = IF cfg[i].locking THEN i ELSE lock
            /\ UNCHANGED events
       ELSE /\ watcher' = [watcher EXCEPT ![i].pc = "idle"]
            /\ events' = [events EXCEPT ![i] = [name |-> "error", data |-> <<>>]]
            /\ UNCHANGED lock
  /\ UNCHANGED <<file, mtimeChanged, cfg, initialized, dataCache, writeScheduled,
                 timer, queue, call, budget, inserted>>

\* A reference that aliased the cache keeps pointing at the Map object that
\* this.dataCache pointed to before the assignment replaced it.
Detach(i, r) == IF r.alias THEN PrivateRef(dataCache[i].map) ELSE r

\* The listener resumes (in the lock-taking version once _readFromFile has
\* released the lock): this.dataCache = data; this.emit("fileChanged", data).
WatchApply(i) ==
  /\ Running(i) /\ watcher[i].pc = "loaded"
  /\ dataCache' = [dataCache EXCEPT ![i] = [null |-> FALSE, map |-> watcher[i].data]]
  /\ events' = [events EXCEPT ![i] = [name |-> "fileChanged", data |-> watcher[i].data]]
  /\ watcher' = [watcher EXCEPT ![i] = [pc |-> "idle", data |-> <<>>]]
  /\ timer' = [timer EXCEPT ![i].ref = Detach(i, @)]
  /\ queue' = [queue EXCEPT ![i].jobs =
       [j \in 1..Len(@) |-> [@[j] EXCEPT !.ref = Detach(i, @)]]]
  /\ lock' = IF cfg[i].locking THEN 0 ELSE lock
  /\ UNCHANGED <<file, mtimeChanged, cfg, initialized, writeScheduled, call, budget, inserted>>

\* The client's continuation has seen the outcome of its call.
Observe(i, s) ==
  /\ Settled(i, s)
  /\ call' = [call EXCEPT ![i][s] = NoCall]
  /\ UNCHANGED <<file, mtimeChanged, lock, cfg, initialized, dataCache, writeScheduled,
                 timer, queue, watcher, events, budget, inserted>>

\* A program other than the store replaces the content of the file.
ExternalDatasets ==
  {<<Entry("a", "0")>>, <<Entry("1", "1")>>, <<Entry("a", "1"), Entry("1", "1")>>}

ExternalWrite(F) ==
  /\ budget[0] > 0 /\ file.exists
  /\ file' = FileOf(JSONstringify(F))
  /\ Touch
  /\ Called(0)
  /\ UNCHANGED <<lock, cfg, initialized, dataCache, writeScheduled, timer, queue, watcher,
                 call, events, inserted>>

\* ------------------------------------------------------------- specifications
Creating ==
  \/ \E i \in Inst : \E s \in Slot(i), k \in Keys, v \in Values : create(i, s, k, v, FALSE)
  \/ \E i \in Inst : \E s \in Slot(i), k \in Keys, v \in Values : update(i, s, k, v)

Mutations ==
  \/ Creating
  \/ \E i \in Inst : \E s \in Slot(i) : create(i, s, NonStringKey, "1", FALSE)
  \/ \E i \in Inst : \E s \in Slot(i) : create(i, s, "a", Undefined, FALSE)
  \/ \E i \in Inst : \E s \in Slot(i), k \in Keys \cup {NonStringKey} : delete(i, s, k)
  \/ \E i \in Inst : \E s \in Slot(i), ops \in SeqsUpTo(BatchOp, MaxBatch) : batchWrite(i, s, ops)

\* The reading calls that both versions of the class have.
Lookups ==
  \/ \E i \in Inst : \E s \in Slot(i), k \in Keys \cup {NonStringKey} : read(i, s, k)
  \/ \E i \in Inst : \E s \in Slot(i), k \in Keys :
        batchRead(i, s, <<[action |-> "read", key |-> k, value |-> Undefined]>>)
  \/ \E i \in Inst : \E s \in Slot(i), n \in 1..MaxPage, z \in 1..MaxPage : readPage(i, s, n, z)

Reads ==
  \/ Lookups
  \/ \E i \in Inst : \E s \in Slot(i) : readAll(i, s)

Observing == \E i \in Inst : \E s \in Slot(i) : Observe(i, s)

\* Initialization and the watcher.
Watching ==
  \/ \E i \in Inst : Initialize(i)
  \/ \E i \in Inst : WatchPoll(i)
  \/ \E i \in Inst : WatchRead(i)
  \/ \E i \in Inst : WatchApply(i)

\* The file writes, and the timer that starts the delayed ones.
Writing ==
  \/ \E i \in Inst : WriteOpen(i)
  \/ \E i \in Inst : WriteEnd(i)

Timing == \E i \in Inst : TimerFire(i)

\* The steps of a call that only a store without cache takes.
Uncached ==
  \/ \E i \in Inst : \E s \in Slot(i) : FileRead(i, s)
  \/ \E i \in Inst : \E s \in Slot(i) : Resume(i, s)

\* The steps of a call that only the lock-taking version takes.
Locking ==
  \/ \E i \in Inst : \E s \in Slot(i) : Acquire(i, s)
  \/ \E i \in Inst : \E s \in Slot(i) : Locked(i, s)
  \/ \E i \in Inst : \E s \in Slot(i) : Release(i, s)

\* One instance of either version of the class, one client that awaits each
\* call before it makes the next; no other writer of the file, no failing file
\* operation.
Next ==
  Mutations \/ Reads \/ Observing \/ Watching \/ Writing \/ Timing \/ Uncached \/ Locking

Spec == Init /\ [][Next]_vars

\* The queue-based store with cache and delayed write, whose client makes one
\* call more.
InitBurst ==
  Constructed([i \in {1} |-> [useCache |-> TRUE, delayedWrite |-> TRUE, locking |-> FALSE]],
              {1}, [i \in {1} |-> MaxCalls + 1])

NextBurst == Mutations \/ Reads \/ Observing \/ Watching \/ Writing \/ Timing

SpecBurst == InitBurst /\ [][NextBurst]_vars

\* Two instances with the same options, writing at once, in two processes on
\* the same path; each has its own client, which makes one create or update
\* and is followed until that call has settled.
InitTwo ==
  \E o \in Options :
    ~o.delayedWrite /\ Constructed([i \in {1, 2} |-> o], {1}, [i \in {1, 2} |-> 1])

NextTwo == Creating \/ Watching \/ Writing \/ Uncached \/ Locking

SpecTwo == InitTwo /\ [][NextTwo]_vars

\* A caching instance whose client only reads, and another program that
\* overwrites the file.
InitExt ==
  \E o \in Options :
    o.useCache /\ Constructed([i \in {1} |-> o], {1}, [i \in {0, 1} |-> MaxCalls])

NextExt == Reads \/ Observing \/ Watching \/ \E F \in ExternalDatasets : ExternalWrite(F)

SpecExt == InitExt /\ [][NextExt]_vars

\* One instance whose file writes may fail.
NextFault == Next \/ \E i \in Inst : WriteFail(i)

SpecFault == Init /\ [][NextFault]_vars

\* One instance of the lock-taking version, whose file writes may fail.
InitLock ==
  \E o \in Options : o.locking /\ Constructed([i \in {1} |-> o], {1}, [i \in {1} |-> MaxCalls])

NextLock ==
  \/ Mutations \/ Lookups \/ Observing \/ Watching \/ Writing \/ Timing \/ Uncached \/ Locking
  \/ \E i \in Inst : WriteFail(i)

SpecLock == InitLock /\ [][NextLock]_vars

\* --------------------------------------------------------------------- claims
\* The Dataset a read of instance i would work on now: the Cached View when
\* caching, else the decoded file.
View(i) == IF cfg[i].useCache THEN dataCache[i].map ELSE readFromFile(file)

\* What read(k) returns when it is called and completes now.
ReadNow(i, k) == OrNull(MapGet(View(i), k))

\* The same keys with the same values, in whatever order.
SameMapping(m1, m2) ==
  \A k \in Keys : MapHas(m1, k) = MapHas(m2, k) /\ MapGet(m1, k) = MapGet(m2, k)

\* C1: in both cache modes, once create(k, v) or update(k, v) has returned,
\* read(k) returns v (also for v = 0, false, ""), and once delete(k) has
\* returned, read(k) returns null.
C1_ReadReturnsWhatWasWritten ==
  \A i \in Inst : \A s \in Slot(i) :
    LET c == call[i][s]
    IN c.pc = "returned" =>
         /\ c.op = "create" => ReadNow(i, c.key) = c.val
         /\ c.op = "delete" => ReadNow(i, c.key) = Null

\* C2: create without overwrite on a present key throws KeyExists, leaves the
\* Dataset as it was and writes nothing; update of a present key returns and
\* has replaced the value of that key alone, in place.
C2_KeyExistsUnlessOverwrite ==
  \A i \in Inst : \A s \in Slot(i) :
    LET c == call[i][s]
    IN (Settled(i, s) /\ c.op = "create" /\ IsString(c.key) /\ isValidJson(c.val)
          /\ MapHas(c.pre, c.key)) =>
         IF ~c.overwrite
           THEN /\ c.pc = "threw" /\ c.err = "KeyExists"
                /\ c.view = c.pre
                /\ c.nwrites = 0
                /\ cfg[i].useCache => dataCache[i].map = c.pre
                /\ \A j \in 1..Len(queue[i].jobs) : queue[i].jobs[j].owner # s
           ELSE /\ c.pc = "returned" /\ c.err = "none"
                /\ MapGet(c.view, c.key) = c.val
                /\ MapKeys(c.view) = MapKeys(c.pre)
                /\ \A k \in Keys \ {c.key} : MapGet(c.view, k) = MapGet(c.pre, k)
                /\ (cfg[i].useCache /\ cfg[i].delayedWrite) => dataCache[i].map = c.view

\* C3: delete of a string key that is not present returns without error and
\* leaves the Dataset as it was, in every cache mode and delayedWrite setting;
\* after any delete(k) a second delete(k) changes nothing.
C3_DeleteAbsentIsNoOp ==
  \A i \in Inst : \A s \in Slot(i) :
    LET c == call[i][s]
    IN /\ (Settled(i, s) /\ c.op = "delete" /\ IsString(c.key)
              /\ ~MapHas(c.pre, c.key) /\ ~MapHas(View(i), c.key)) =>
            /\ c.pc = "returned" /\ c.err = "none"
            /\ c.view = c.pre
            /\ (cfg[i].useCache /\ cfg[i].delayedWrite) => dataCache[i].map = c.pre
            /\ ~cfg[i].useCache /\ ~cfg[i].delayedWrite => SameMapping(readFromFile(file), c.pre)
       /\ (c.pc = "returned" /\ c.op = "delete") =>
            /\ ~MapHas(c.view, c.key)
            /\ MapDelete(c.view, c.key) = c.view

\* C4: batchWrite leaves the Dataset equal to its operations applied in list
\* order to the Dataset it started from, and causes at most one file write,
\* exactly one when delayedWrite = 0.
C4_BatchAppliedAndWrittenOnce ==
  \A i \in Inst : \A s \in Slot(i) :
    LET c == call[i][s]
    IN (c.pc = "returned" /\ c.op = "batchWrite" /\ c.ops # <<>> /\ c.pre # <<>>) =>
         /\ c.view = ApplyOps(c.pre, c.ops)
         /\ c.nwrites <= 1
         /\ ~cfg[i].delayedWrite => c.nwrites = 1

\* C5: readPage returns exactly the keys whose position in insertion order is
\* in [(pageNumber-1)*pageSize, pageNumber*pageSize), each with its stored value.
C5_PageByInsertionPosition ==
  \A i \in Inst : \A s \in Slot(i) :
    LET c == call[i][s]
        lo == (c.pageNumber - 1) * c.pageSize
        hi == c.pageNumber * c.pageSize
    IN (c.pc = "returned" /\ c.op = "readPage"
          /\ {c.pre[j].key : j \in 1..Len(c.pre)} = {inserted[i][j] : j \in 1..Len(inserted[i])}) =>
         /\ {c.page[j].key : j \in 1..Len(c.page)}
              = {inserted[i][j] : j \in (lo + 1..hi) \cap (1..Len(inserted[i]))}
         /\ \A j \in 1..Len(c.page) : c.page[j].val = MapGet(c.pre, c.page[j].key)

\* C6: with caching and delayedWrite > 0 no second flush is scheduled while one
\* is pending, and the one write of the pending flush shows the effect of every
\* mutation made since the flush was scheduled.
C6_OneFlushWithAllMutations ==
  \A i \in Inst :
    (cfg[i].useCache /\ cfg[i].delayedWrite) =>
      /\ timer[i].armed => writeScheduled[i] /\ queue[i].jobs = <<>>
      /\ Len(queue[i].jobs) <= 1
      /\ \A j \in 1..Len(queue[i].jobs) :
           /\ writeScheduled[i] /\ ~timer[i].armed
           /\ \A k \in Keys : ~queue[i].jobs[j].missed[k]

\* C7: with delayedWrite = 0, when a mutating call has returned, the file
\* decodes to the instance's Dataset, the empty one included.
C7_FileEqualsDatasetOnReturn ==
  \A i \in Inst : \A s \in Slot(i) :
    LET c == call[i][s]
    IN (c.pc = "returned" /\ c.op \in Mutating /\ c.pre # <<>> /\ ~cfg[i].delayedWrite) =>
         /\ JSONparses(file.text)
         /\ SameMapping(JSONparse(file.text), c.view)

\* C8: when two instances on the same path have each completed one create or
\* update that started from a Dataset without the other's effect, the file
\* decodes and holds the effect of at least one of them, of both when the keys
\* differ.
C8_TwoInstancesBothEffects ==
  \A i, j \in Inst : \A s \in Slot(i), t \in Slot(j) :
    LET c == call[i][s]
        d == call[j][t]
        F == JSONparse(file.text)
    IN (i # j /\ c.pc = "returned" /\ d.pc = "returned" /\ c.op = "create" /\ d.op = "create"
          /\ MapGet(c.pre, d.key) # d.val /\ MapGet(d.pre, c.key) # c.val
          /\ ~cfg[i].delayedWrite /\ ~cfg[j].delayedWrite) =>
         /\ JSONparses(file.text)
         /\ MapGet(F, c.key) = c.val \/ MapGet(F, d.key) = d.val
         /\ c.key # d.key => MapGet(F, c.key) = c.val /\ MapGet(F, d.key) = d.val

\* C9: with caching, once the watcher has caught up with a file that another
\* program overwrote with the dataset F, the Cached View is F, the
\* fileChanged event carried F, and a read returns the value F holds for the
\* key (null for a key F does not hold).
C9_RefreshShowsExternalWrite ==
  \A i \in Inst :
    (cfg[i].useCache /\ initialized[i] /\ watcher[i].pc = "idle" /\ ~mtimeChanged[i]
       /\ events[i].name = "fileChanged" /\ JSONparses(file.text)) =>
      LET F == JSONparse(file.text)
      IN /\ SameMapping(dataCache[i].map, F)
         /\ SameMapping(events[i].data, F)
         /\ \A s \in Slot(i) :
              (call[i][s].pc = "returned" /\ call[i][s].op = "read") =>
                call[i][s].res = IF MapHas(F, call[i][s].key) THEN MapGet(F, call[i][s].key)
                                 ELSE Null

\* C10: when the file write of the immediate flush of a create or update has
\* failed, the call throws that error, the Cached View keeps the mutation, and
\* an error event has been emitted.
C10_FailedFlushThrowsAndNotifies ==
  \A i \in Inst : \A s \in Slot(i) :
    LET c == call[i][s]
    IN (queue[i].rejected /\ Settled(i, s) /\ c.op = "create" /\ IsString(c.key)
          /\ isValidJson(c.val) /\ c.err # "KeyExists"
          /\ cfg[i].useCache /\ ~cfg[i].delayedWrite) =>
         /\ c.pc = "threw" /\ c.err = "IOFailure"
         /\ MapGet(dataCache[i].map, c.key) = c.val
         /\ events[i].name = "error"

\* C11: once a write of the instance has failed (the failure is over: no write
\* is in progress), a create or update with delayedWrite = 0 does not fail
\* with the I/O error again: it gets its write performed.
C11_WriteRecoversAfterFailure ==
  [][\A i \in Inst : \A s \in Slot(i) :
       (queue[i].rejected /\ Idle(i, s) /\ ~cfg[i].delayedWrite /\ ~cfg[i].locking
          /\ call'[i][s].op = "create")
         => ~(call'[i][s].pc = "threw" /\ call'[i][s].err = "IOFailure")]_vars

\* C12: without cache and with delayedWrite > 0, the write of the pending flush
\* contains every mutation that returned while the flush was pending.
C12_UncachedFlushHasLaterMutations ==
  \A i \in Inst :
    (~cfg[i].useCache /\ cfg[i].delayedWrite) =>
      \A j \in 1..Len(queue[i].jobs) :
        queue[i].jobs[j].owner = 0 => \A k \in Keys : ~queue[i].jobs[j].missed[k]

\* C13: with caching and delayedWrite > 0, the text whose write starts when the
\* timer fires is the encoding of the Cached View at that moment.
C13_FlushWritesCachedView ==
  [][\A i \in Inst :
       (cfg[i].useCache /\ cfg[i].delayedWrite /\ timer[i].armed /\ ~timer'[i].armed
          /\ queue[i].jobs = <<>> /\ queue'[i].jobs # <<>>)
         => queue'[i].jobs[1].text = Encode(dataCache[i].map)]_vars

\* C14: with caching and delayedWrite > 0, the pending marker is set only while
\* the timer is armed or the timer's write is in the write queue; only the end
\* of that write clears it, so a marker set without either never returns to
\* not-pending and no later mutation is flushed.
C14_PendingMarkerIsCleared ==
  \A i \in Inst :
    (cfg[i].useCache /\ cfg[i].delayedWrite /\ ~cfg[i].locking /\ writeScheduled[i]) =>
      \/ timer[i].armed
      \/ \E j \in 1..Len(queue[i].jobs) : queue[i].jobs[j].owner = 0

\* C15: a write that is requested is performed after the writes requested before
\* it: when the timer fires, its write joins the instance's writes in progress
\* behind those already there, none of which is dropped or reordered.
C15_WritesTakeEffectInOrder ==
  [][\A i \in Inst :
       (timer[i].armed /\ ~timer'[i].armed) =>
         /\ Len(queue'[i].jobs) = Len(queue[i].jobs) + 1
         /\ queue'[i].jobs[Len(queue'[i].jobs)].owner = 0
         /\ \A j \in 1..Len(queue[i].jobs) : queue'[i].jobs[j] = queue[i].jobs[j]]_vars

\* C16: with caching and no other writer, while no call of the instance is in
\* progress a refresh of the watcher leaves every key that has a value with
\* that value: read(k) keeps returning what the last create or update of k set.
C16_RefreshKeepsMutations ==
  [][\A i \in Inst :
       (cfg[i].useCache /\ watcher[i].pc = "loaded" /\ watcher'[i].pc = "idle"
          /\ \A s \in Slot(i) : Idle(i, s))
         => \A k \in Keys :
              MapHas(dataCache[i].map, k) => ReadNow(i, k)' = ReadNow(i, k)]_vars

\* One instance without cache that writes at once, whose client makes two
\* creates or updates without awaiting the first before it makes the second.
InitPair ==
  \E o \in Options :
    ~o.useCache /\ ~o.delayedWrite
      /\ Constructed([i \in {1} |-> o], {1, 2}, [i \in {1} |-> MaxCalls])

NextPair == Creating \/ Observing \/ Watching \/ Writing \/ Uncached \/ Locking

SpecPair == InitPair /\ [][NextPair]_vars

\* C17: without cache and with delayedWrite = 0, once the calls of the instance
\* have returned and their writes have completed, the file contains every key
\* that a call created, also when the calls overlapped.
C17_OverlappingCallsBothTakeEffect ==
  \A i \in Inst :
    (~cfg[i].useCache /\ ~cfg[i].delayedWrite /\ ~cfg[i].locking /\ initialized[i]
       /\ queue[i].jobs = <<>> /\ \A s \in Slot(i) : Idle(i, s)) =>
      \A j \in 1..Len(inserted[i]) : MapHas(readFromFile(file), inserted[i][j])

\* C18: in the lock-taking version the body of a mutating call, which runs
\* holding the path lock, is not rejected for that lock being held: the call
\* does not request the lock it holds.
C18_NoRequestOfHeldLock ==
  [][\A i \in Inst : \A s \in Slot(i) :
       (cfg[i].locking /\ call[i][s].pc = "locked" /\ lock = i)
         => call'[i][s].err # "ELOCKED"]_vars

\* C19: whenever nothing of an instance is in progress (no call between its
\* lock acquisition and its release, no file write, no watcher re-read), the
\* instance does not hold the path lock; this includes the states in which a
\* call has ended with KeyExists, ELOCKED or a failed read or write.
C19_NoLockWhenNothingInProgress ==
  \A i \in Inst :
    (/\ \A s \in Slot(i) : call[i][s].pc \notin {"locked", "release", "awaitRead"}
     /\ queue[i].jobs = <<>>
     /\ watcher[i].pc # "loaded")
      => lock # i

\* A create of the lock-taking version has thrown KeyExists from inside its
\* locked body, and the lock is free again.
C19_KeyExistsReleased ==
  \E i \in Inst : \E s \in Slot(i) :
    /\ cfg[i].locking /\ call[i][s].pc = "threw" /\ call[i][s].err = "KeyExists"
    /\ lock = 0

\* C20: in every state the instance holds an in-memory dataset if and only if
\* useCache is true.
C20_CachedViewIffUseCache ==
  \A i \in Inst : dataCache[i].null = ~cfg[i].useCache
====
